---------------------------- MODULE Spec2Model ----------------------------
(***************************************************************************)
(* A model of src/main.py: the PromQL label-matcher rewriter               *)
(* (replace_label_in_expr), the panel flattener (extract_panels), the      *)
(* per-dashboard mutation pass (process_dashboard) and the run loop (run). *)
(*                                                                         *)
(* Strings are sequences of one-character strings.  Three specifications   *)
(* share the variables: SpecRewrite drives the rewriter over generated     *)
(* expressions, SpecFlatten drives extract_panels over generated panel     *)
(* forests, Spec drives a whole run against a Grafana server.              *)
(***************************************************************************)
EXTENDS Integers, Sequences, FiniteSets, TLC

VARIABLES
    \* --- rewriter -----------------------------------------------------
    expr,        \* the expression handed to replace_label_in_expr
    req,         \* [old_label, old_value, new_label, new_value]
    edits,       \* number of parts inserted to build expr
    stage,       \* "build" | "rewritten" | "again" | "off"
    new_expr,    \* replace_label_in_expr(expr, ...)
    changed,     \* the decision of process_dashboard for a target holding expr
    again_expr,  \* replace_label_in_expr(new_expr, ...)
    \* --- flattener ----------------------------------------------------
    panels,      \* a panel forest, in pre-order: <<[depth, has_panels, ...]>>
    flat,        \* extract_panels(panels), as indices into panels
    fstage,      \* "build" | "flat" | "off"
    \* --- run ----------------------------------------------------------
    pc,          \* where run is: "resolve", "list", "loop", "process",
                 \* "done", "aborted", "off"
    folder_name, \* the folder_name argument of run
    folder_id,   \* the result of get_folder_id_by_name (None: not found)
    dashboards,  \* the result of get_dashboards_in_folder
    idx,         \* the position of the for loop of run in dashboards
    objs,        \* every dash_data fetched so far; the last is the current one
    orig,        \* history: each dash_data as it was fetched
    all_panels,  \* extract_panels of the current dashboard
    work,        \* the (panel, target) pairs the loops of process_dashboard visit
    visited,     \* how many of them were visited
    modified,    \* the flag of process_dashboard
    log_entries, \* the list run hands to every process_dashboard
    fetches,     \* history: the calls of get_dashboard, [uid, ok]
    posts,       \* history: the calls of update_dashboard, [obj, nth, ok]
    log_file     \* history: what was written to the log file, one entry a write

rwVars == <<expr, edits, stage, new_expr, changed, again_expr>>

flVars == <<panels, flat, fstage>>

runVars == <<pc, folder_name, folder_id, dashboards, idx, objs, orig, all_panels,
             work, visited, modified, log_entries, fetches, posts, log_file>>

vars == <<req, rwVars, flVars, runVars>>

-----------------------------------------------------------------------------
(* Bounds *)

MaxEdits == 2     \* parts inserted into a generated expression
MaxPanels == 4    \* panels of a generated panel forest
MaxDash == 2      \* entries of a dashboard listing

None == <<>>
Some(x) == <<x>>

-----------------------------------------------------------------------------
(* Characters and the character classes of the pattern (main.py:27),       *)
(* restricted to the characters the model uses.                           *)

DQ == "\""
SQ == "'"

Letters == {"a", "c", "d"}          \* [a-zA-Z_]
Digits  == {"1"}                    \* [0-9]
Spaces  == {" "}                    \* \s
Quotes  == {DQ, SQ}                 \* ["\']

IsIdentStart(c) == c \in Letters
IsIdentChar(c)  == c \in Letters \cup Digits
IsSpace(c)      == c \in Spaces
IsQuote(c)      == c \in Quotes

\* The alternation (?P<op>=~|!~|=|!=), in the order the engine tries it.
OpAlternatives == << <<"=", "~">>, <<"!", "~">>, <<"=">>, <<"!", "=">> >>

NoMatch == [ok |-> FALSE]

StartsWith(s, i, p) ==
    /\ i + Len(p) - 1 <= Len(s)
    /\ SubSeq(s, i, i + Len(p) - 1) = p

\* [a-zA-Z0-9_]* from position i: the first position the greedy run does not take.
RECURSIVE SkipIdent(_, _)
SkipIdent(s, i) ==
    IF i <= Len(s) /\ IsIdentChar(s[i]) THEN SkipIdent(s, i + 1) ELSE i

\* \s* from position i.
RECURSIVE SkipSpace(_, _)
SkipSpace(s, i) ==
    IF i <= Len(s) /\ IsSpace(s[i]) THEN SkipSpace(s, i + 1) ELSE i

\* [^"\']*? from position i: the lazy run grows one character at a time and
\* stops at the first quote character of either kind (or the end of s).
RECURSIVE ScanVal(_, _)
ScanVal(s, i) ==
    IF i <= Len(s) /\ ~IsQuote(s[i]) THEN ScanVal(s, i + 1) ELSE i

\* \s*(?P<quote>["\'])(?P<val>[^"\']*?)(?P=quote) from position j.
MatchTail(s, j) ==
    LET q == SkipSpace(s, j) IN
    IF q <= Len(s) /\ IsQuote(s[q])
    THEN LET e == ScanVal(s, q + 1) IN
         IF e <= Len(s) /\ s[e] = s[q]
         THEN [ok |-> TRUE, quote |-> s[q], val |-> SubSeq(s, q + 1, e - 1),
               end |-> e + 1]
         ELSE NoMatch
    ELSE NoMatch

\* The alternatives of the operator group from position o, tried in order; the
\* first one after which the rest of the pattern matches is taken.
RECURSIVE MatchOp(_, _, _)
MatchOp(s, o, n) ==
    IF n > Len(OpAlternatives) THEN NoMatch
    ELSE LET alt == OpAlternatives[n]
             t   == IF StartsWith(s, o, alt) THEN MatchTail(s, o + Len(alt))
                    ELSE NoMatch
         IN IF t.ok
            THEN [ok |-> TRUE, op |-> alt, quote |-> t.quote, val |-> t.val,
                  end |-> t.end]
            ELSE MatchOp(s, o, n + 1)

\* pattern.match at position i.  The key and the white space are greedy; giving
\* characters back never helps, since the character that follows a shorter key
\* (or a shorter run of white space) is an identifier character (a space),
\* which no operator (no operator, no quote) starts with.
MatchAt(s, i) ==
    IF i <= Len(s) /\ IsIdentStart(s[i])
    THEN LET k == SkipIdent(s, i + 1)
             m == MatchOp(s, SkipSpace(s, k), 1)
         IN IF m.ok
            THEN [ok |-> TRUE, start |-> i, end |-> m.end,
                  key |-> SubSeq(s, i, k - 1), op |-> m.op, quote |-> m.quote,
                  val |-> m.val, text |-> SubSeq(s, i, m.end - 1)]
            ELSE NoMatch
    ELSE NoMatch

\* replacer with its last line rebuilding the token from the groups instead of
\* returning group(0): the white space of a token it does not substitute is lost.
replacer_Rebuilds(m, r) ==
    IF m.key = r.old_label /\ m.val = r.old_value
    THEN r.new_label \o m.op \o <<m.quote>> \o r.new_value \o <<m.quote>>
    ELSE m.key \o m.op \o <<m.quote>> \o m.val \o <<m.quote>>

\* The inner function replacer (main.py:17-24).
replacer(m, r) ==
    IF m.key = r.old_label /\ m.val = r.old_value
    THEN r.new_label \o m.op \o <<m.quote>> \o r.new_value \o <<m.quote>>
    ELSE m.text

\* The scan of pattern.sub / pattern.finditer from position i: the matches,
\* non-overlapping, left to right.
RECURSIVE FindAll(_, _)
FindAll(s, i) ==
    IF i > Len(s) THEN <<>>
    ELSE LET m == MatchAt(s, i) IN
         IF m.ok THEN <<m>> \o FindAll(s, m.end)
         ELSE FindAll(s, i + 1)

\* pattern.sub(replacer, expr) from position i: non-overlapping matches, left
\* to right; an unmatched character is copied.
RECURSIVE Sub(_, _, _)
Sub(s, i, r) ==
    IF i > Len(s) THEN <<>>
    ELSE LET m == MatchAt(s, i) IN
         IF m.ok THEN replacer(m, r) \o Sub(s, m.end, r)
         ELSE <<s[i]>> \o Sub(s, i + 1, r)

\* pattern.sub(replacer, expr, count=1): only the first match is handed to
\* replacer, the rest of the expression is copied.
replace_first_match_only(e, r) ==
    LET ms == FindAll(e, 1) IN
    IF ms = <<>> THEN e
    ELSE SubSeq(e, 1, ms[1].start - 1) \o replacer(ms[1], r)
         \o SubSeq(e, ms[1].end, Len(e))

replace_label_in_expr(e, r) == Sub(e, 1, r)


\* x in s, for strings (main.py:90).
Contains(s, x) ==
    \E i \in 1..(Len(s) + 1) : StartsWith(s, i, x)

\* The test of main.py:90-92 without the comparison of line 92: every
\* expression that passes the substring filter counts as changed.
TargetChanged_NoCompare(e, r) ==
    /\ e # <<>>
    /\ Contains(e, r.old_label)
    /\ Contains(e, r.old_value)

\* The test of process_dashboard on one target expression (main.py:90-92):
\* the substring filter, then the comparison of the rewritten expression.
TargetChanged(e, r) ==
    /\ e # <<>>
    /\ Contains(e, r.old_label)
    /\ Contains(e, r.old_value)
    /\ replace_label_in_expr(e, r) # e

-----------------------------------------------------------------------------
(* SpecRewrite: expressions are built by inserting parts (single characters *)
(* or whole matchers) anywhere into the expression, then rewritten twice.   *)

\* The operator characters "!" and "~" enter through the matchers below.
Chars == {"a", "1", " ", "=", DQ, SQ}

Matcher(op, q) == <<"a">> \o op \o <<q, "a", q>>

Parts ==
    {<<c>> : c \in Chars}
    \cup {Matcher(OpAlternatives[n], q) : n \in 1..Len(OpAlternatives), q \in Quotes}

Request(ol, ov, nl, nv) ==
    [old_label |-> ol, old_value |-> ov, new_label |-> nl, new_value |-> nv]

Requests ==
    { Request(<<"a">>, <<"a">>, <<"c">>, <<"d">>),
      Request(<<"a">>, <<"a">>, <<"a">>, <<"a">>),
      Request(<<"a">>, <<"a", SQ>>, <<"c">>, <<"d">>),
      Request(<<"a">>, <<"a">>, <<"c">>, <<"a", DQ, "a", "=", DQ, "a">>) }

InsertAt(s, p, part) == SubSeq(s, 1, p) \o part \o SubSeq(s, p + 1, Len(s))

FlattenOff == panels = <<>> /\ flat = <<>> /\ fstage = "off"

RunOff ==
    /\ pc = "off" /\ folder_name = "" /\ folder_id = None /\ dashboards = <<>>
    /\ idx = 0 /\ objs = <<>> /\ orig = <<>> /\ all_panels = <<>> /\ work = <<>>
    /\ visited = 0 /\ modified = FALSE /\ log_entries = <<>> /\ fetches = <<>>
    /\ posts = <<>> /\ log_file = <<>>

RewriteOff ==
    /\ expr = <<>> /\ edits = 0 /\ stage = "off" /\ new_expr = <<>>
    /\ changed = FALSE /\ again_expr = <<>>

NoRequest == Request(<<>>, <<>>, <<>>, <<>>)

InitRewrite ==
    /\ FlattenOff /\ RunOff
    /\ expr = <<>>
    /\ req = NoRequest
    /\ edits = 0
    /\ stage = "build"
    /\ new_expr = <<>>
    /\ changed = FALSE
    /\ again_expr = <<>>

InsertPart ==
    /\ stage = "build"
    /\ edits < MaxEdits
    /\ \E p \in 0..Len(expr), part \in Parts :
          expr' = InsertAt(expr, p, part)
    /\ edits' = edits + 1
    /\ UNCHANGED <<req, stage, new_expr, changed, again_expr, flVars, runVars>>

\* The expression is rewritten for some request, and the test that
\* process_dashboard makes of it is taken.
Rewrite ==
    /\ stage = "build"
    /\ \E r \in Requests :
          /\ req' = r
          /\ new_expr' = replace_label_in_expr(expr, r)
          /\ changed' = TargetChanged(expr, r)
    /\ stage' = "rewritten"
    /\ UNCHANGED <<expr, edits, again_expr, flVars, runVars>>

RewriteAgain ==
    /\ stage = "rewritten"
    /\ again_expr' = replace_label_in_expr(new_expr, req)
    /\ stage' = "again"
    /\ UNCHANGED <<expr, req, edits, new_expr, changed, flVars, runVars>>

NextRewrite == InsertPart \/ Rewrite \/ RewriteAgain

SpecRewrite == InitRewrite /\ [][NextRewrite]_vars

-----------------------------------------------------------------------------
(* What the rewriter did to an expression, read off its matches.           *)

IsTarget(m, r) == m.key = r.old_label /\ m.val = r.old_value

\* The matches the replacer substitutes.
Replaced(e, r) ==
    LET T(m) == IsTarget(m, r) IN SelectSeq(FindAll(e, 1), T)

NumReplaced(e, r) == Len(Replaced(e, r))

\* The growth of the output over the input caused by the matches that end at
\* or before position p.
RECURSIVE ShiftOf(_, _, _)
ShiftOf(ms, r, p) ==
    IF ms = <<>> THEN 0
    ELSE LET m == Head(ms) IN
         (IF m.end <= p THEN Len(replacer(m, r)) - Len(m.text) ELSE 0)
         + ShiftOf(Tail(ms), r, p)

Shift(e, r, p) == ShiftOf(FindAll(e, 1), r, p)

\* The part of the output that stands where positions lo..hi-1 of e stood.
ImageOf(e, out, r, lo, hi) ==
    SubSeq(out, lo + Shift(e, r, lo), hi - 1 + Shift(e, r, hi))

\* A match whose substitution differs from the matched text meets lo..hi-1.
Touched(e, r, lo, hi) ==
    \E n \in 1..Len(FindAll(e, 1)) :
       LET m == FindAll(e, 1)[n] IN
       /\ m.start < hi /\ lo < m.end
       /\ replacer(m, r) # m.text

-----------------------------------------------------------------------------
(* The matcher grammar as the specification words it: IDENT OP QUOTE VALUE *)
(* QUOTE with nothing between the parts, OP the longest of =~ !~ != =,     *)
(* VALUE running up to the next occurrence of the opening quote.           *)

GrammarOps == << <<"=", "~">>, <<"!", "~">>, <<"!", "=">>, <<"=">> >>

RECURSIVE NextQuote(_, _, _)
NextQuote(s, i, q) ==
    IF i <= Len(s) /\ s[i] # q THEN NextQuote(s, i + 1, q) ELSE i

GrammarOpAt(s, o) ==
    IF \E n \in 1..Len(GrammarOps) : StartsWith(s, o, GrammarOps[n])
    THEN GrammarOps[CHOOSE n \in 1..Len(GrammarOps) :
                      /\ StartsWith(s, o, GrammarOps[n])
                      /\ \A k \in 1..(n - 1) : ~StartsWith(s, o, GrammarOps[k])]
    ELSE <<>>

GrammarTokenAt(s, i) ==
    IF i <= Len(s) /\ s[i] \in Letters
    THEN LET k  == SkipIdent(s, i + 1)
             op == GrammarOpAt(s, k)
             q  == k + Len(op)
         IN IF op # <<>> /\ q <= Len(s) /\ s[q] \in Quotes
            THEN LET e == NextQuote(s, q + 1, s[q]) IN
                 IF e <= Len(s)
                 THEN [ok |-> TRUE, start |-> i, end |-> e + 1,
                       key |-> SubSeq(s, i, k - 1), op |-> op, quote |-> s[q],
                       val |-> SubSeq(s, q + 1, e - 1),
                       text |-> SubSeq(s, i, e)]
                 ELSE NoMatch
            ELSE NoMatch
    ELSE NoMatch

RECURSIVE GrammarTokens(_, _)
GrammarTokens(s, i) ==
    IF i > Len(s) THEN <<>>
    ELSE LET t == GrammarTokenAt(s, i) IN
         IF t.ok THEN <<t>> \o GrammarTokens(s, t.end)
         ELSE GrammarTokens(s, i + 1)

TokenSet(s) == {GrammarTokens(s, 1)[n] : n \in 1..Len(GrammarTokens(s, 1))}

MatchSet(s) == {FindAll(s, 1)[n] : n \in 1..Len(FindAll(s, 1))}

Rewritten == stage \in {"rewritten", "again"}

-----------------------------------------------------------------------------
(* Claims about the rewriter (checked under SpecRewrite)                   *)

\* C1 (as claimed): every matcher token of the expression whose key differs
\* from oldLabel or whose value differs from oldValue stands byte for byte
\* unchanged in the output of replace_label_in_expr.
C1_ExactMatchOnly ==
    Rewritten =>
      \A t \in TokenSet(expr) :
         ~IsTarget(t, req) =>
            /\ ~Touched(expr, req, t.start, t.end)
            /\ ImageOf(expr, new_expr, req, t.start, t.end) = t.text

\* C2 (as claimed): every occurrence of a token whose key equals oldLabel and
\* whose value equals oldValue is replaced by newLabel, the same operator, the
\* same quote, newValue, the same quote, for each operator and each quote
\* character, all occurrences in one pass.
C2_OperatorQuotePreserved ==
    Rewritten =>
      \A t \in TokenSet(expr) :
         IsTarget(t, req) =>
            ImageOf(expr, new_expr, req, t.start, t.end)
              = req.new_label \o t.op \o <<t.quote>> \o req.new_value \o <<t.quote>>

\* C9 (as claimed): the VALUE of a token opened with quote q is any run of
\* characters without q, up to the next q, and may hold the other quote
\* character: the rewriter recognises every such token with that value (and so
\* substitutes it when key and value are the requested ones), and no match is
\* closed by another quote character than the one that opened it.
C9_QuoteGrammar ==
    Rewritten =>
      /\ \A t \in TokenSet(expr) :
            LET m == MatchAt(expr, t.start) IN
            /\ m.ok /\ m.quote = t.quote /\ m.val = t.val /\ m.end = t.end
            /\ IsTarget(t, req) =>
                  \E n \in 1..NumReplaced(expr, req) :
                     /\ Replaced(expr, req)[n].start = t.start
                     /\ Replaced(expr, req)[n].end = t.end
      /\ \A m \in MatchSet(expr) : expr[m.end - 1] = m.quote

\* C3 (as claimed): the target counts as changed if and only if the rewriter
\* replaced at least one matcher token, whatever newLabel and newValue are.
C3_ChangedIffReplaced ==
    Rewritten => (changed <=> NumReplaced(expr, req) > 0)

\* C3 (amended): the target counts as changed if and only if the rewriter
\* replaced at least one matcher token and the rewritten expression differs
\* from the original one; the substring filter never hides a replacement.
C3_ChangedIffReplacedAndDiffers ==
    Rewritten =>
      LET n == NumReplaced(expr, req) IN
      /\ changed <=> (n > 0 /\ new_expr # expr)
      /\ n > 0 => Contains(expr, req.old_label) /\ Contains(expr, req.old_value)

\* A replacement reported as a change although newLabel = oldLabel and
\* newValue = oldValue (the token had white space around its operator).
C3_Witness ==
    /\ Rewritten /\ changed /\ NumReplaced(expr, req) > 0
    /\ req.new_label = req.old_label /\ req.new_value = req.old_value

\* A request whose newLabel is an identifier and whose newValue holds no quote.
WellFormed(r) ==
    /\ r.new_label # <<>>
    /\ IsIdentStart(r.new_label[1])
    /\ \A i \in 1..Len(r.new_label) : IsIdentChar(r.new_label[i])
    /\ \A i \in 1..Len(r.new_value) : ~IsQuote(r.new_value[i])

IsIdentity(r) == r.new_label = r.old_label /\ r.new_value = r.old_value

\* C7 (as claimed): rewriting twice equals rewriting once, and the second
\* application replaces no token, for every expression and every request.
C7_Idempotent ==
    stage = "again" =>
      /\ again_expr = new_expr
      /\ NumReplaced(new_expr, req) = 0

\* C7 (amended): for a request whose newLabel is an identifier and whose
\* newValue holds no quote, rewriting twice equals rewriting once; the second
\* application replaces a token only when newLabel = oldLabel and newValue =
\* oldValue, and then by itself.
C7_IdempotentWellFormed ==
    (stage = "again" /\ WellFormed(req)) =>
      /\ again_expr = new_expr
      /\ NumReplaced(new_expr, req) > 0 => IsIdentity(req)

C7_Witness ==
    /\ stage = "again" /\ WellFormed(req) /\ ~IsIdentity(req)
    /\ NumReplaced(expr, req) > 1
    /\ new_expr # expr /\ again_expr = new_expr

Outside(p) == \A t \in TokenSet(expr) : ~(t.start <= p /\ p < t.end)

\* C8 (as claimed): every character outside a matcher token (IDENT OP QUOTE
\* VALUE QUOTE with nothing between the parts) stands unchanged in the output.
C8_NonInterference ==
    Rewritten =>
      \A p \in 1..Len(expr) :
         Outside(p) =>
            /\ ~Touched(expr, req, p, p + 1)
            /\ ImageOf(expr, new_expr, req, p, p + 1) = <<expr[p]>>

SpaceRun(n) == [k \in 1..n |-> " "]

\* text is oldLabel, white space, an operator, white space, a quote, oldValue,
\* the same quote.
TargetShape(text, r) ==
    \E n \in 1..Len(GrammarOps), q \in Quotes, i, j \in 0..Len(text) :
       /\ Len(text) = Len(r.old_label) + i + Len(GrammarOps[n]) + j
                      + Len(r.old_value) + 2
       /\ text = r.old_label \o SpaceRun(i) \o GrammarOps[n] \o SpaceRun(j)
                 \o <<q>> \o r.old_value \o <<q>>

\* e from position i on, with each match of ms replaced by newLabel, its
\* operator, its quote, newValue, its quote; everything else copied.
RECURSIVE Splice(_, _, _, _)
Splice(e, i, ms, r) ==
    IF ms = <<>> THEN SubSeq(e, i, Len(e))
    ELSE LET m == Head(ms) IN
         SubSeq(e, i, m.start - 1)
         \o r.new_label \o m.op \o <<m.quote>> \o r.new_value \o <<m.quote>>
         \o Splice(e, m.end, Tail(ms), r)

\* C8 (amended): the output is the expression with some disjoint substrings,
\* each of the form oldLabel, optional white space, operator, optional white
\* space, quote, oldValue, same quote, replaced by newLabel operator quote
\* newValue quote; every character outside these substrings stands unchanged
\* and in the same order (white space inside a replaced substring is dropped).
C8_NonInterferenceOutsideReplaced ==
    Rewritten =>
      LET rs == Replaced(expr, req) IN
      /\ \A n \in 1..Len(rs) : TargetShape(rs[n].text, req)
      /\ new_expr = Splice(expr, 1, rs, req)

\* A replaced matcher with white space kept next to it.
C8_Witness ==
    /\ Rewritten
    /\ \E n \in 1..NumReplaced(expr, req) :
          LET m == Replaced(expr, req)[n] IN
          /\ m.start > 1 /\ expr[m.start - 1] = " "
          /\ new_expr[m.start - 1] = " "
    /\ new_expr # expr

-----------------------------------------------------------------------------
(* Panels.  A list of panels with their nested 'panels' lists is kept as   *)
(* the sequence of its panels in document (pre-) order, each with its      *)
(* depth.  has_panels says that the panel carries the key 'panels'; its    *)
(* list is the panels that follow it one level deeper, and is empty when   *)
(* none does.  A panel without the key has no list, so nothing nests       *)
(* under it.                                                               *)

Panel(d, hp, title, targets) ==
    [depth |-> d, has_panels |-> hp, title |-> title, targets |-> targets]

\* The positions of the panels at depth d among lo..hi that no shallower
\* panel separates from lo: one list of panels, in order.
RECURSIVE ListFrom(_, _, _, _)
ListFrom(f, lo, hi, d) ==
    IF lo > hi \/ f[lo].depth < d THEN <<>>
    ELSE (IF f[lo].depth = d THEN <<lo>> ELSE <<>>) \o ListFrom(f, lo + 1, hi, d)

\* dashboard.get('panels', []): the top-level list.
TopPanels(f) == ListFrom(f, 1, Len(f), 0)

\* panel['panels'] of the panel at position i.
ChildPanels(f, i) == ListFrom(f, i + 1, Len(f), f[i].depth + 1)

\* extract_panels (main.py:68-75): for each panel of the list, the flattening
\* of its 'panels' list when it carries the key, the panel itself otherwise.
RECURSIVE extract_panels(_, _)
extract_panels(f, list) ==
    IF list = <<>> THEN <<>>
    ELSE LET panel == Head(list) IN
         (IF f[panel].has_panels
          THEN extract_panels(f, ChildPanels(f, panel))
          ELSE <<panel>>)
         \o extract_panels(f, Tail(list))

-----------------------------------------------------------------------------
(* SpecFlatten: panel forests are built panel by panel in document order,  *)
(* then flattened.                                                         *)

InitFlatten ==
    /\ req = NoRequest /\ RewriteOff /\ RunOff
    /\ panels = <<>>
    /\ flat = <<>>
    /\ fstage = "build"

\* The next panel of the document: a panel of the top-level list, of the list
\* of the last panel (when that one carries the key), or of the list of one of
\* its ancestors.
AddPanel ==
    /\ fstage = "build"
    /\ Len(panels) < MaxPanels
    /\ \E d \in 0..MaxPanels, hp \in BOOLEAN :
          /\ d <= (IF panels = <<>> THEN 0
                   ELSE panels[Len(panels)].depth
                        + (IF panels[Len(panels)].has_panels THEN 1 ELSE 0))
          /\ panels' = Append(panels, Panel(d, hp, None, None))
    /\ UNCHANGED <<flat, fstage, req, rwVars, runVars>>

Flatten ==
    /\ fstage = "build"
    /\ flat' = extract_panels(panels, TopPanels(panels))
    /\ fstage' = "flat"
    /\ UNCHANGED <<panels, req, rwVars, runVars>>

NextFlatten == AddPanel \/ Flatten

SpecFlatten == InitFlatten /\ [][NextFlatten]_vars

\* The panels without children, in document order.
RECURSIVE Childless(_, _)
Childless(f, i) ==
    IF i > Len(f) THEN <<>>
    ELSE (IF ChildPanels(f, i) = <<>> THEN <<i>> ELSE <<>>) \o Childless(f, i + 1)

\* C6 (as claimed): extract_panels returns each panel that has no children
\* exactly once, whether it lacks the 'panels' field or carries an empty one,
\* in pre-order, and no panel that has children.
C6_FlattenComplete ==
    fstage = "flat" => flat = Childless(panels, 1)

-----------------------------------------------------------------------------
(* The run (main.py:108-135) against a Grafana server.  A dashboard object *)
(* is the JSON of /api/dashboards/uid/<uid>; an optional key is None when  *)
(* absent and Some(value) when present.                                    *)

\* /api/folders of the server.
Folders == << [title |-> "ops", id |-> 3], [title |-> "test-label-replace", id |-> 7] >>

\* get_folder_id_by_name (main.py:39-44), given the folders the server returned.
RECURSIVE get_folder_id_by_name(_, _)
get_folder_id_by_name(name, folders) ==
    IF folders = <<>> THEN None
    ELSE IF Head(folders).title = name THEN Some(Head(folders).id)
    ELSE get_folder_id_by_name(name, Tail(folders))

Target(e) == [expr |-> Some(e)]
TargetWithoutExpr == [expr |-> None]

E_hit  == <<"a", "=", DQ, "a", DQ>>
E_two  == <<"a", "=", DQ, "a", DQ, ",", "a", "!", "=", SQ, "a", SQ>>
E_ws   == <<"a", " ", "=", DQ, "a", DQ>>
E_near == <<"a", "a", "=", DQ, "a", DQ>>
E_miss == <<"1">>

Dashboard(id, title, ps, meta) ==
    [dashboard |-> [id |-> id, title |-> title, panels |-> ps],
     meta |-> meta, overwrite |-> None, folderId |-> None]

\* The dashboards the server may hold under a uid.
Catalogue ==
    { \* one panel, nothing to rewrite
      Dashboard(Some(11), Some("cpu"),
                Some(<< Panel(0, FALSE, Some("load"), Some(<<Target(E_near), Target(E_miss)>>)) >>),
                Some([folderId |-> Some(7)])),
      \* a row with two panels, then two panels beside the row
      Dashboard(Some(12), None,
                Some(<< Panel(0, TRUE, Some("row"), None),
                        Panel(1, FALSE, Some("p1"),
                              Some(<<Target(E_hit), Target(E_near), Target(E_two)>>)),
                        Panel(1, FALSE, None, Some(<<Target(E_ws)>>)),
                        Panel(0, FALSE, Some("p3"), None),
                        Panel(0, FALSE, Some("p4"),
                              Some(<<TargetWithoutExpr, Target(<<>>), Target(E_hit)>>)) >>),
                Some([folderId |-> None])),
      \* no panels key, no meta
      Dashboard(Some(13), Some("empty"), None, None),
      \* a panel that carries an empty 'panels' list and a target
      Dashboard(Some(14), Some("rows"),
                Some(<< Panel(0, TRUE, Some("open row"), Some(<<Target(E_hit)>>)) >>),
                Some([folderId |-> Some(7)])),
      \* one panel, one target to rewrite, no meta, no id
      Dashboard(None, Some("mem"),
                Some(<< Panel(0, FALSE, Some("used"), Some(<<Target(E_hit)>>)) >>),
                None) }

Uids == {"u1", "u2"}

Entries == {[uid |-> Some(u)] : u \in Uids} \cup {[uid |-> None]}

\* The listings /api/search may return: entries with distinct uids, some
\* possibly without a uid.
Listings ==
    { l \in UNION {[1..n -> Entries] : n \in 0..MaxDash} :
        \A i, j \in 1..Len(l) :
           (i # j /\ l[i].uid # None) => l[i].uid # l[j].uid }

RunRequests ==
    { Request(<<"a">>, <<"a">>, <<"c">>, <<"d">>),
      Request(<<"a">>, <<"a">>, <<"a">>, <<"a">>) }

\* dashboard.get('panels', [])
PanelsOf(obj) ==
    IF obj.dashboard.panels = None THEN <<>> ELSE obj.dashboard.panels[1]

\* panel.get("targets", [])
TargetsOf(panel) ==
    IF panel.targets = None THEN <<>> ELSE panel.targets[1]

\* The pairs (panel, target) that the two loops of main.py:86-88 visit.
RECURSIVE WorkList(_, _)
WorkList(f, list) ==
    IF list = <<>> THEN <<>>
    ELSE [t \in 1..Len(TargetsOf(f[Head(list)])) |-> <<Head(list), t>>]
         \o WorkList(f, Tail(list))

\* The log entry of main.py:93-97 with AFTER taken from the target before it
\* is assigned.
LogEntry_AfterFromTarget(folder, obj, panel, e, ne) ==
    [folder |-> folder,
     dashboard |-> IF obj.dashboard.title = None THEN "Unnamed Dashboard"
                   ELSE obj.dashboard.title[1],
     panel |-> IF panel.title = None THEN "Unnamed Panel" ELSE panel.title[1],
     before |-> e, after |-> e]

\* The log entry of main.py:93-97.
LogEntry(folder, obj, panel, e, ne) ==
    [folder |-> folder,
     dashboard |-> IF obj.dashboard.title = None THEN "Unnamed Dashboard"
                   ELSE obj.dashboard.title[1],
     panel |-> IF panel.title = None THEN "Unnamed Panel" ELSE panel.title[1],
     before |-> e, after |-> ne]

\* main.py:102-104: the id kept, the overwrite flag, the folder id of meta.
Stamp(obj) ==
    [obj EXCEPT
       !.dashboard.id = obj.dashboard.id,
       !.overwrite = Some(TRUE),
       !.folderId = Some(IF obj.meta = None THEN 0
                         ELSE IF obj.meta[1].folderId = None THEN 0
                         ELSE obj.meta[1].folderId[1])]

\* main.py:101 without its test: every dashboard is written back.
NeedsUpdate_Always(m) == TRUE

\* main.py:101: if modified.
NeedsUpdate(m) == m

Current == objs[Len(objs)]

InitRun ==
    /\ RewriteOff /\ FlattenOff
    /\ req \in RunRequests
    /\ folder_name \in {"test-label-replace", "no-such-folder"}
    /\ pc = "resolve"
    /\ folder_id = None /\ dashboards = <<>> /\ idx = 0
    /\ objs = <<>> /\ orig = <<>> /\ all_panels = <<>> /\ work = <<>>
    /\ visited = 0 /\ modified = FALSE /\ log_entries = <<>>
    /\ fetches = <<>> /\ posts = <<>> /\ log_file = <<>>

\* main.py:114-117: the folder is looked up; not found ends the run.
ResolveFolder ==
    /\ pc = "resolve"
    /\ \/ /\ folder_id' = get_folder_id_by_name(folder_name, Folders)
          /\ pc' = IF folder_id' = None THEN "done" ELSE "list"
       \/ /\ pc' = "aborted"             \* raise_for_status in get_all_folders
          /\ UNCHANGED folder_id
    /\ UNCHANGED <<folder_name, dashboards, idx, objs, orig, all_panels, work,
                   visited, modified, log_entries, fetches, posts, log_file,
                   req, rwVars, flVars>>

\* main.py:119-120.
ListDashboards ==
    /\ pc = "list"
    /\ \/ /\ \E l \in Listings : dashboards' = l
          /\ idx' = 1
          /\ pc' = "loop"
       \/ /\ pc' = "aborted"             \* raise_for_status in get_dashboards_in_folder
          /\ UNCHANGED <<dashboards, idx>>
    /\ UNCHANGED <<folder_name, folder_id, objs, orig, all_panels, work, visited,
                   modified, log_entries, fetches, posts, log_file,
                   req, rwVars, flVars>>

AtEntry == pc = "loop" /\ idx <= Len(dashboards)

\* main.py:123-125: an entry without uid is passed over.
SkipEntry ==
    /\ AtEntry /\ dashboards[idx].uid = None
    /\ idx' = idx + 1
    /\ UNCHANGED <<pc, folder_name, folder_id, dashboards, objs, orig, all_panels,
                   work, visited, modified, log_entries, fetches, posts,
                   log_file, req, rwVars, flVars>>

\* main.py:126 and 80-84: the dashboard is fetched, its panels flattened.
FetchDashboard ==
    /\ AtEntry /\ dashboards[idx].uid # None
    /\ \E d \in Catalogue :
          /\ objs' = Append(objs, d)
          /\ orig' = Append(orig, d)
          /\ all_panels' = extract_panels(PanelsOf(d), TopPanels(PanelsOf(d)))
          /\ work' = WorkList(PanelsOf(d), all_panels')
    /\ fetches' = Append(fetches, [uid |-> dashboards[idx].uid[1], ok |-> TRUE])
    /\ visited' = 0
    /\ modified' = FALSE
    /\ pc' = "process"
    /\ UNCHANGED <<folder_name, folder_id, dashboards, idx, log_entries, posts,
                   log_file, req, rwVars, flVars>>

\* get_dashboard raises, and the run ends with the exception, the log file
\* written on the way out (as a finally clause would).
FetchFails_WritesLog ==
    /\ AtEntry /\ dashboards[idx].uid # None
    /\ fetches' = Append(fetches, [uid |-> dashboards[idx].uid[1], ok |-> FALSE])
    /\ log_file' = Append(log_file, log_entries)
    /\ pc' = "aborted"
    /\ UNCHANGED <<folder_name, folder_id, dashboards, idx, objs, orig, all_panels,
                   work, visited, modified, log_entries, posts,
                   req, rwVars, flVars>>

\* main.py:126, 57: get_dashboard raises, and the run ends with the exception.
FetchFails ==
    /\ AtEntry /\ dashboards[idx].uid # None
    /\ fetches' = Append(fetches, [uid |-> dashboards[idx].uid[1], ok |-> FALSE])
    /\ pc' = "aborted"
    /\ UNCHANGED <<folder_name, folder_id, dashboards, idx, objs, orig, all_panels,
                   work, visited, modified, log_entries, posts, log_file,
                   req, rwVars, flVars>>

\* main.py:88-99: one target of one panel of all_panels.
ProcessTarget ==
    /\ pc = "process" /\ visited < Len(work)
    /\ LET p     == work[visited + 1][1]
           t     == work[visited + 1][2]
           panel == PanelsOf(Current)[p]
           e     == TargetsOf(panel)[t].expr
       IN IF e # None /\ TargetChanged(e[1], req)
          THEN LET ne == replace_label_in_expr(e[1], req) IN
               /\ log_entries' =
                     Append(log_entries, LogEntry(folder_name, Current, panel, e[1], ne))
               /\ objs' = [objs EXCEPT
                     ![Len(objs)].dashboard.panels[1][p].targets[1][t].expr = Some(ne)]
               /\ modified' = TRUE
          ELSE UNCHANGED <<log_entries, objs, modified>>
    /\ visited' = visited + 1
    /\ UNCHANGED <<pc, folder_name, folder_id, dashboards, idx, orig, all_panels,
                   work, fetches, posts, log_file, req, rwVars, flVars>>

\* main.py:101 not taken: process_dashboard returns, the loop goes on.
FinishUnmodified ==
    /\ pc = "process" /\ visited = Len(work)
    /\ ~NeedsUpdate(modified)
    /\ idx' = idx + 1
    /\ pc' = "loop"
    /\ UNCHANGED <<folder_name, folder_id, dashboards, objs, orig, all_panels, work,
                   visited, modified, log_entries, fetches, posts, log_file,
                   req, rwVars, flVars>>

\* main.py:101-105: the object is stamped and posted; the post succeeds or
\* raises, which ends the run.
Persist ==
    /\ pc = "process" /\ visited = Len(work)
    /\ NeedsUpdate(modified)
    /\ objs' = [objs EXCEPT ![Len(objs)] = Stamp(Current)]
    /\ \/ /\ posts' = Append(posts, [obj |-> Stamp(Current), nth |-> Len(objs),
                                     ok |-> TRUE])
          /\ idx' = idx + 1
          /\ pc' = "loop"
       \/ /\ posts' = Append(posts, [obj |-> Stamp(Current), nth |-> Len(objs),
                                     ok |-> FALSE])
          /\ pc' = "aborted"
          /\ UNCHANGED idx
    /\ UNCHANGED <<folder_name, folder_id, dashboards, orig, all_panels, work,
                   visited, modified, log_entries, fetches, log_file,
                   req, rwVars, flVars>>

\* main.py:130-135: the loop is over, the log file is written.
WriteLog ==
    /\ pc = "loop" /\ idx > Len(dashboards)
    /\ log_file' = Append(log_file, log_entries)
    /\ pc' = "done"
    /\ UNCHANGED <<folder_name, folder_id, dashboards, idx, objs, orig, all_panels,
                   work, visited, modified, log_entries, fetches, posts,
                   req, rwVars, flVars>>

Next ==
    \/ ResolveFolder \/ ListDashboards \/ SkipEntry \/ FetchDashboard
    \/ FetchFails \/ ProcessTarget \/ FinishUnmodified \/ Persist \/ WriteLog

Spec == InitRun /\ [][Next]_vars

-----------------------------------------------------------------------------
(* Claims about the run (checked under Spec)                               *)

\* Every (panel, target) of a panel forest, in document order.
RECURSIVE AllTargets(_, _)
AllTargets(f, i) ==
    IF i > Len(f) THEN <<>>
    ELSE [t \in 1..Len(TargetsOf(f[i])) |-> <<i, t>>] \o AllTargets(f, i + 1)

TargetsOfDash(j) == AllTargets(PanelsOf(orig[j]), 1)

ExprAt(obj, pt) == TargetsOf(PanelsOf(obj)[pt[1]])[pt[2]].expr

\* The target pt of the j-th dashboard holds another expr than when fetched.
ChangedAt(j, pt) == ExprAt(orig[j], pt) # ExprAt(objs[j], pt)

AnyChanged(j) ==
    \E n \in 1..Len(TargetsOfDash(j)) : ChangedAt(j, TargetsOfDash(j)[n])

PostsFor(j) == {n \in 1..Len(posts) : posts[n].nth = j}

\* The j-th dashboard is still being processed.
InProcess(j) == j = Len(objs) /\ pc = "process"

TitleOr(t, default) == IF t = None THEN default ELSE t[1]

RECURSIVE RecordsOf(_, _)
RecordsOf(j, pts) ==
    IF pts = <<>> THEN <<>>
    ELSE (IF ChangedAt(j, Head(pts))
          THEN << [folder |-> folder_name,
                   dashboard |-> TitleOr(orig[j].dashboard.title, "Unnamed Dashboard"),
                   panel |-> TitleOr(PanelsOf(orig[j])[Head(pts)[1]].title, "Unnamed Panel"),
                   before |-> ExprAt(orig[j], Head(pts)),
                   after |-> ExprAt(objs[j], Head(pts))] >>
          ELSE <<>>)
         \o RecordsOf(j, Tail(pts))

\* One record per changed target: dashboards in the order fetched, panels in
\* document order, targets in order.
RECURSIVE ExpectedLog(_)
ExpectedLog(j) ==
    IF j = 0 THEN <<>>
    ELSE ExpectedLog(j - 1) \o RecordsOf(j, TargetsOfDash(j))

LogShown ==
    [n \in 1..Len(log_entries) |->
        [log_entries[n] EXCEPT !.before = Some(@), !.after = Some(@)]]

IsPrefix(s, t) == Len(s) <= Len(t) /\ SubSeq(t, 1, Len(s)) = s

\* C5: log_entries holds exactly one record per changed target, BEFORE the
\* expr before the pass and AFTER the expr the target holds after it, ordered
\* by dashboard, then pre-order position of the panel, then target; a record
\* once appended is never altered, removed or reordered.
C5_ChangeRecords ==
    /\ [](LogShown = ExpectedLog(Len(objs)))
    /\ [][IsPrefix(log_entries, log_entries')]_vars

\* Records of two dashboards, one of them for an expression in which two
\* tokens were replaced, after a target that was left alone.
C5_Witness ==
    /\ pc = "done" /\ Len(objs) = 2
    /\ Len(RecordsOf(1, TargetsOfDash(1))) >= 3
    /\ Len(RecordsOf(2, TargetsOfDash(2))) >= 1
    /\ \E n \in 1..Len(log_entries) : log_entries[n].before = E_two
    /\ log_file = <<log_entries>>

\* The uids of a listing, in order.
RECURSIVE UidsOf(_)
UidsOf(l) ==
    IF l = <<>> THEN <<>>
    ELSE (IF Head(l).uid = None THEN <<>> ELSE <<Head(l).uid[1]>>) \o UidsOf(Tail(l))

Resolves == \E n \in 1..Len(Folders) : Folders[n].title = folder_name

\* C10: the log file is written at most once, and only after every listed
\* dashboard (every entry with a uid) was fetched, processed and, if modified,
\* persisted; a failing fetch or persist ends the run at once, without retry
\* and without the log file, the earlier modified dashboards persisted and
\* their records in memory; with an unknown folder nothing is fetched,
\* persisted or written.
C10_LogOnlyAfterCompleteRun ==
    /\ Len(log_file) <= 1
    /\ log_file # <<>> =>
          /\ pc = "done"
          /\ log_file = <<log_entries>>
          /\ [n \in 1..Len(fetches) |-> fetches[n].uid] = UidsOf(dashboards)
          /\ \A n \in 1..Len(fetches) : fetches[n].ok
          /\ \A n \in 1..Len(posts) : posts[n].ok
          /\ Len(objs) = Len(fetches)
          /\ \A j \in 1..Len(objs) : AnyChanged(j) => PostsFor(j) # {}
    /\ pc = "aborted" =>
          /\ log_file = <<>>
          /\ \A n \in 1..(Len(fetches) - 1) : fetches[n].ok
          /\ \A n \in 1..(Len(posts) - 1) : posts[n].ok
          /\ \A j \in 1..Len(objs) : AnyChanged(j) => PostsFor(j) # {}
          /\ LogShown = ExpectedLog(Len(objs))
    /\ IsPrefix([n \in 1..Len(fetches) |-> fetches[n].uid], UidsOf(dashboards))
    /\ Len(posts) <= Len(objs)
    /\ ~Resolves => fetches = <<>> /\ posts = <<>> /\ log_file = <<>>

\* A run that failed at its second dashboard: the first one persisted, its
\* records in memory, no log file.
C10_Witness ==
    /\ pc = "aborted"
    /\ Len(posts) = 1 /\ posts[1].ok /\ Len(fetches) = 2
    /\ log_entries # <<>>
    /\ log_file = <<>>

=============================================================================
